---- MODULE Spec2Model ----
(***************************************************************************)
(* Model of the crypto core of shadowrocks (src/crypto.rs and              *)
(* src/crypto/cipher_spec.rs): the cipher registry, the cipher-name        *)
(* parser, the legacy master-key derivation, the crypter factory and the   *)
(* nonce state of a crypter pair.                                          *)
(***************************************************************************)
EXTENDS Integers, Sequences, FiniteSets, TLC

(***************************************************************************)
(* Bounds of the model.                                                    *)
(***************************************************************************)
\* encrypt calls explored per crypter (beyond 256, so the nonce carries)
MaxCalls == 258
\* largest key_size requested from derive_master_key_compatible
MaxKeyReq == 34
\* ciphertext chunks in flight between the two crypters
MaxWire == 1

(***************************************************************************)
(* Result values.                                                          *)
(***************************************************************************)
Ok(v) == [tag |-> "Ok", val |-> v]
Err(e) == [tag |-> "Err", err |-> e]
Panic(msg) == [tag |-> "Panic", msg |-> msg]
NotCalled == [tag |-> "NotCalled"]

(***************************************************************************)
(* cipher_spec.rs: the CipherType enumeration.  CipherType::None exists    *)
(* only in a cfg(test) build.                                              *)
(***************************************************************************)
ProductionCipherTypes ==
    {"Chacha20IetfPoly1305", "XChacha20IetfPoly1305",
     "Aes256GCM", "Aes192GCM", "Aes128GCM"}

CipherType(test_build) ==
    IF test_build THEN ProductionCipherTypes \cup {"None"}
    ELSE ProductionCipherTypes

(***************************************************************************)
(* cipher_spec.rs: the CipherSpec statics.                                 *)
(***************************************************************************)
CHACHA20_IETF_POLY1305 ==
    [cipher_type |-> "Chacha20IetfPoly1305",
     key_size |-> 32, salt_size |-> 32, nonce_size |-> 12, tag_size |-> 16]

XCHACHA20_IETF_POLY1305 ==
    [cipher_type |-> "XChacha20IetfPoly1305",
     key_size |-> 32, salt_size |-> 32, nonce_size |-> 24, tag_size |-> 16]

AES_256_GCM ==
    [cipher_type |-> "Aes256GCM",
     key_size |-> 32, salt_size |-> 32, nonce_size |-> 12, tag_size |-> 16]

AES_192_GCM ==
    [cipher_type |-> "Aes192GCM",
     key_size |-> 24, salt_size |-> 24, nonce_size |-> 12, tag_size |-> 16]

\* faulty variant of AES_128_GCM: salt_size copied from a 32-byte cipher
AES_128_GCM_wrong_salt ==
    [cipher_type |-> "Aes128GCM",
     key_size |-> 16, salt_size |-> 32, nonce_size |-> 12, tag_size |-> 16]

AES_128_GCM ==
    [cipher_type |-> "Aes128GCM",
     key_size |-> 16, salt_size |-> 16, nonce_size |-> 12, tag_size |-> 16]

NONE ==
    [cipher_type |-> "None",
     key_size |-> 0, salt_size |-> 0, nonce_size |-> 0, tag_size |-> 0]

(***************************************************************************)
(* CipherType::spec: the match, then assert_eq!(ret.cipher_type, self).    *)
(* The value is Ok(ret), or Panic when the assertion fails.                *)
(***************************************************************************)
\* faulty variant of the match: the Aes192GCM arm returns AES_256_GCM
spec_match_swapped(self) ==
    CASE self = "Chacha20IetfPoly1305" -> CHACHA20_IETF_POLY1305
      [] self = "XChacha20IetfPoly1305" -> XCHACHA20_IETF_POLY1305
      [] self = "Aes256GCM" -> AES_256_GCM
      [] self = "Aes192GCM" -> AES_256_GCM
      [] self = "Aes128GCM" -> AES_128_GCM
      [] self = "None" -> NONE

spec_match(self) ==
    CASE self = "Chacha20IetfPoly1305" -> CHACHA20_IETF_POLY1305
      [] self = "XChacha20IetfPoly1305" -> XCHACHA20_IETF_POLY1305
      [] self = "Aes256GCM" -> AES_256_GCM
      [] self = "Aes192GCM" -> AES_192_GCM
      [] self = "Aes128GCM" -> AES_128_GCM
      [] self = "None" -> NONE

spec(self) ==
    LET ret == spec_match(self)
    IN  IF ret.cipher_type = self
        THEN Ok(ret)
        ELSE Panic("assertion failed: ret.cipher_type == self")

(***************************************************************************)
(* impl FromStr for CipherType, and CipherType::possible_ciphers.          *)
(***************************************************************************)
\* faulty variant of from_str: "aes-192-gcm" yields Aes256GCM
from_str_192_as_256(name) ==
    CASE name = "chacha20-ietf-poly1305" -> Ok("Chacha20IetfPoly1305")
      [] name = "xchacha20-ietf-poly1305" -> Ok("XChacha20IetfPoly1305")
      [] name = "aes-256-gcm" -> Ok("Aes256GCM")
      [] name = "aes-192-gcm" -> Ok("Aes256GCM")
      [] name = "aes-128-gcm" -> Ok("Aes128GCM")
      [] OTHER -> Err([kind |-> "UnknownCipher", name |-> name])

from_str(name) ==
    CASE name = "chacha20-ietf-poly1305" -> Ok("Chacha20IetfPoly1305")
      [] name = "xchacha20-ietf-poly1305" -> Ok("XChacha20IetfPoly1305")
      [] name = "aes-256-gcm" -> Ok("Aes256GCM")
      [] name = "aes-192-gcm" -> Ok("Aes192GCM")
      [] name = "aes-128-gcm" -> Ok("Aes128GCM")
      [] OTHER -> Err([kind |-> "UnknownCipher", name |-> name])

POSSIBLE_CIPHERS ==
    <<"aes-128-gcm", "aes-192-gcm", "aes-256-gcm",
      "chacha20-ietf-poly1305", "xchacha20-ietf-poly1305">>

possible_ciphers == POSSIBLE_CIPHERS

(***************************************************************************)
(* crypto.rs: module constants and NonceType.                              *)
(***************************************************************************)
TAG_BYTES == 16
NONCE_BYTES == 12

NonceType == {"Sequential", "Zero"}

(***************************************************************************)
(* The openssl toolkit as crypto.rs uses it: Cipher::key_len,              *)
(* Cipher::iv_len().unwrap_or(0), and pkcs5::bytes_to_key                  *)
(* (EVP_BytesToKey with MD5, no salt, count 1).  MD5 is an uninterpreted   *)
(* 16-byte digest: byte j of md5(data) is the term [md5 |-> data, ...].    *)
(***************************************************************************)
cipher_key_len(cipher) ==
    CASE cipher = "aes_256_gcm" -> 32
      [] cipher = "aes_192_gcm" -> 24
      [] cipher = "aes_128_gcm" -> 16

cipher_iv_len_unwrap_or_0(cipher) ==
    CASE cipher \in {"aes_256_gcm", "aes_192_gcm", "aes_128_gcm"} -> 12

MD5_DIGEST_LENGTH == 16

md5(data) == [j \in 1..MD5_DIGEST_LENGTH |-> [md5 |-> data, byte |-> j]]

RECURSIVE evp_stream(_, _, _)
evp_stream(prev, data, need) ==
    IF need <= 0 THEN <<>>
    ELSE LET d == md5(prev \o data)
         IN  d \o evp_stream(d, data, need - MD5_DIGEST_LENGTH)

bytes_to_key(cipher, data) ==
    LET klen == cipher_key_len(cipher)
        ilen == cipher_iv_len_unwrap_or_0(cipher)
        ks == evp_stream(<<>>, data, klen + ilen)
    IN  Ok([key |-> SubSeq(ks, 1, klen),
            iv |-> SubSeq(ks, klen + 1, klen + ilen)])

(***************************************************************************)
(* crypto.rs: derive_master_key_compatible.                                *)
(***************************************************************************)
\* faulty variant: the last key_size bytes of the long key, not the first
derive_master_key_compatible_suffix(password, key_size) ==
    LET longest_key_size == AES_256_GCM.key_size
    IN  IF key_size > longest_key_size
        THEN Panic("Cannot derive a key longer than")
        ELSE LET derive_result == bytes_to_key("aes_256_gcm", password)
             IN  IF derive_result.tag = "Ok"
                 THEN Ok(SubSeq(derive_result.val.key,
                                longest_key_size - key_size + 1,
                                longest_key_size))
                 ELSE Err([kind |-> "KeyDerivationError"])

\* faulty variant: the guard is >= instead of >
derive_master_key_compatible_ge(password, key_size) ==
    LET longest_key_size == AES_256_GCM.key_size
    IN  IF key_size >= longest_key_size
        THEN Panic("Cannot derive a key longer than")
        ELSE LET derive_result == bytes_to_key("aes_256_gcm", password)
             IN  IF derive_result.tag = "Ok"
                 THEN Ok(SubSeq(derive_result.val.key, 1, key_size))
                 ELSE Err([kind |-> "KeyDerivationError"])

derive_master_key_compatible(password, key_size) ==
    LET longest_key_size == AES_256_GCM.key_size
    IN  IF key_size > longest_key_size
        THEN Panic("Cannot derive a key longer than")
        ELSE LET derive_result == bytes_to_key("aes_256_gcm", password)
             IN  IF derive_result.tag = "Ok"
                 THEN Ok(SubSeq(derive_result.val.key, 1, key_size))
                 ELSE Err([kind |-> "KeyDerivationError"])

(***************************************************************************)
(* The two backend adapters (sodium_crypter, openssl_crypter) and the      *)
(* Crypter capability they implement.  A crypter is its key, its nonce     *)
(* mode and its nonce buffer; the AEAD transform is symbolic: a ciphertext *)
(* opens only under the cipher, key and nonce that sealed it.              *)
(***************************************************************************)
Chacha20IetfPoly1305Crypter_KEY_BYTES == 32
Chacha20IetfPoly1305Crypter_NONCE_BYTES == 12

Zeros(n) == [i \in 1..n |-> 0]

Chacha20IetfPoly1305Crypter_create_crypter(key_bytes, nonce_type) ==
    [backend |-> "sodium", cipher |-> "chacha20_ietf_poly1305",
     key |-> key_bytes, nonce_type |-> nonce_type,
     key_len |-> Chacha20IetfPoly1305Crypter_KEY_BYTES,
     nonce_len |-> Chacha20IetfPoly1305Crypter_NONCE_BYTES,
     nonce |-> Zeros(Chacha20IetfPoly1305Crypter_NONCE_BYTES)]

OpensslCrypter_create(cipher, key_bytes, nonce_type) ==
    [backend |-> "openssl", cipher |-> cipher,
     key |-> key_bytes, nonce_type |-> nonce_type,
     key_len |-> cipher_key_len(cipher),
     nonce_len |-> cipher_iv_len_unwrap_or_0(cipher),
     nonce |-> Zeros(cipher_iv_len_unwrap_or_0(cipher))]

\* the nonce buffer as a little-endian unsigned integer, plus one
RECURSIVE increment_le(_)
increment_le(nonce) ==
    IF nonce = <<>> THEN <<>>
    ELSE IF Head(nonce) = 255 THEN <<0>> \o increment_le(Tail(nonce))
    ELSE <<Head(nonce) + 1>> \o Tail(nonce)

\* faulty variant of the increment: the first byte wraps without a carry
increment_no_carry(nonce) ==
    IF nonce = <<>> THEN <<>>
    ELSE <<(Head(nonce) + 1) % 256>> \o Tail(nonce)

advance_nonce_no_carry(crypter) ==
    IF crypter.nonce_type = "Sequential"
    THEN [crypter EXCEPT !.nonce = increment_no_carry(@)]
    ELSE crypter

advance_nonce(crypter) ==
    IF crypter.nonce_type = "Sequential"
    THEN [crypter EXCEPT !.nonce = increment_le(@)]
    ELSE crypter

seal(crypter, data) ==
    [cipher |-> crypter.cipher, key |-> crypter.key,
     nonce |-> crypter.nonce, data |-> data]

opens(crypter, ct) ==
    /\ ct.cipher = crypter.cipher
    /\ ct.key = crypter.key
    /\ ct.nonce = crypter.nonce

encrypt(crypter, data) ==
    [out |-> Ok(seal(crypter, data)),
     nonce_used |-> crypter.nonce,
     crypter |-> advance_nonce(crypter)]

\* faulty variant of decrypt: the nonce is not advanced after a success
decrypt_keeps_nonce(crypter, ct) ==
    IF opens(crypter, ct)
    THEN [out |-> Ok(ct.data), nonce_used |-> crypter.nonce,
          crypter |-> crypter]
    ELSE [out |-> Err([kind |-> "AuthenticationError"]),
          nonce_used |-> crypter.nonce, crypter |-> crypter]

decrypt(crypter, ct) ==
    IF opens(crypter, ct)
    THEN [out |-> Ok(ct.data), nonce_used |-> crypter.nonce,
          crypter |-> advance_nonce(crypter)]
    ELSE [out |-> Err([kind |-> "AuthenticationError"]),
          nonce_used |-> crypter.nonce, crypter |-> crypter]

(***************************************************************************)
(* crypto.rs: create_crypter.  The value records the outcome (the handle,  *)
(* or the panic of a failed assertion), the branch taken and whether the   *)
(* fallback warning was logged.                                            *)
(***************************************************************************)
\* assert_eq! pair of the ChaCha branch
chacha_asserts(sp) ==
    /\ sp.key_size = Chacha20IetfPoly1305Crypter_KEY_BYTES
    /\ sp.nonce_size = Chacha20IetfPoly1305Crypter_NONCE_BYTES

\* the match of the second branch: the cipher and whether the `_` arm ran
match_cipher(cipher_type) ==
    CASE cipher_type = "Aes256GCM" -> [cipher |-> "aes_256_gcm", fallback |-> FALSE]
      [] cipher_type = "Aes192GCM" -> [cipher |-> "aes_192_gcm", fallback |-> FALSE]
      [] cipher_type = "Aes128GCM" -> [cipher |-> "aes_128_gcm", fallback |-> FALSE]
      [] OTHER -> [cipher |-> "aes_256_gcm", fallback |-> TRUE]

\* faulty variant of the assertions: the nonce length is not compared
openssl_asserts_key_only(sp, cipher) ==
    sp.key_size = cipher_key_len(cipher)

\* assert_eq! pair of the second branch
openssl_asserts(sp, cipher) ==
    /\ sp.key_size = cipher_key_len(cipher)
    /\ sp.nonce_size = cipher_iv_len_unwrap_or_0(cipher)

create_crypter(key_bytes, nonce_type, cipher_type) ==
    IF cipher_type = "Chacha20IetfPoly1305"
    THEN LET crypter ==
                 Chacha20IetfPoly1305Crypter_create_crypter(key_bytes, nonce_type)
             sp == spec(cipher_type)
         IN  [route |-> "chacha", cipher |-> "chacha20_ietf_poly1305",
              warned |-> FALSE,
              outcome |->
                  IF sp.tag # "Ok" THEN sp
                  ELSE IF ~chacha_asserts(sp.val)
                  THEN Panic("assertion failed: registry and sodium differ")
                  ELSE Ok(crypter)]
    ELSE LET m == match_cipher(cipher_type)
             sp == spec(cipher_type)
         IN  [route |-> IF m.fallback THEN "fallback" ELSE "gcm",
              cipher |-> m.cipher,
              warned |-> m.fallback,
              outcome |->
                  IF sp.tag # "Ok" THEN sp
                  ELSE IF ~openssl_asserts(sp.val, m.cipher)
                  THEN Panic("assertion failed: registry and openssl differ")
                  ELSE Ok(OpensslCrypter_create(m.cipher, key_bytes, nonce_type))]

(***************************************************************************)
(* Inputs.                                                                 *)
(***************************************************************************)
Range(f) == {f[i] : i \in DOMAIN f}

\* the listed names, case variants of two of them, and unlisted names
NameInputs ==
    Range(possible_ciphers) \cup
    {"AES-256-GCM", "Chacha20-Ietf-Poly1305", "aes-256-cfb", "none", ""}

\* b"key" and b"deadbeef"
Passwords ==
    {<<107, 101, 121>>, <<100, 101, 97, 100, 98, 101, 101, 102>>}

\* keys of n bytes handed to create_crypter
Keys(n) == {[i \in 1..n |-> b] : b \in {17, 200}}

Plaintexts == {<<>>, <<104, 105>>}

(***************************************************************************)
(* State.                                                                  *)
(***************************************************************************)
VARIABLES
    cfg_test,        \* TRUE in a cfg(test) build
    pc,              \* where the configured session stands
    name,            \* the cipher name given to from_str
    parsed,          \* the value of from_str(name)
    cipher_type,     \* the CipherType in use
    spec_ret,        \* the value of cipher_type.spec()
    derive_req,      \* the arguments of derive_master_key_compatible
    master_key,      \* its value
    key_bytes,       \* the key given to create_crypter
    nonce_type,      \* the nonce mode given to create_crypter
    factory,         \* the value of the last create_crypter call
    enc,             \* the encrypting crypter
    dec,             \* the decrypting crypter
    wire,            \* ciphertexts produced and not yet decrypted
    enc_calls,       \* successful encrypt calls
    dec_calls,       \* successful decrypt calls
    enc_nonce_used,  \* the nonce of the last encrypt call
    dec_nonce_used,  \* the nonce of the last decrypt call
    dec_out,         \* the value of the last decrypt call
    dec_expect       \* the plaintext whose ciphertext it was given

vars ==
    <<cfg_test, pc, name, parsed, cipher_type, spec_ret, derive_req,
      master_key, key_bytes, nonce_type, factory, enc, dec, wire,
      enc_calls, dec_calls, enc_nonce_used, dec_nonce_used, dec_out,
      dec_expect>>

config_vars == <<name, parsed, cipher_type, spec_ret>>
derive_vars == <<derive_req, master_key>>
factory_vars == <<key_bytes, nonce_type, factory, enc, dec>>
enc_vars == <<enc_calls, enc_nonce_used>>
dec_vars == <<dec_calls, dec_nonce_used, dec_out, dec_expect>>

Init ==
    /\ cfg_test \in BOOLEAN
    /\ pc = "start"
    /\ name = ""
    /\ parsed = NotCalled
    /\ cipher_type = "unset"
    /\ spec_ret = NotCalled
    /\ derive_req = NotCalled
    /\ master_key = NotCalled
    /\ key_bytes = <<>>
    /\ nonce_type = "unset"
    /\ factory = NotCalled
    /\ enc = NotCalled
    /\ dec = NotCalled
    /\ wire = <<>>
    /\ enc_calls = 0
    /\ dec_calls = 0
    /\ enc_nonce_used = <<>>
    /\ dec_nonce_used = <<>>
    /\ dec_out = NotCalled
    /\ dec_expect = <<>>

(***************************************************************************)
(* Operations.                                                             *)
(***************************************************************************)
\* the configured cipher name is parsed
FromStr(n) ==
    /\ pc = "start"
    /\ name' = n
    /\ parsed' = from_str(n)
    /\ IF parsed'.tag = "Ok"
       THEN cipher_type' = parsed'.val /\ pc' = "configured"
       ELSE cipher_type' = cipher_type /\ pc' = "config_error"
    /\ UNCHANGED <<cfg_test, spec_ret, derive_vars, factory_vars, wire,
                   enc_vars, dec_vars>>

\* a caller names a CipherType of the build directly
SelectCipher(c) ==
    /\ pc = "start"
    /\ cipher_type' = c
    /\ pc' = "configured"
    /\ UNCHANGED <<cfg_test, name, parsed, spec_ret, derive_vars,
                   factory_vars, wire, enc_vars, dec_vars>>

\* cipher_type.spec()
LookupSpec ==
    /\ pc = "configured"
    /\ spec_ret' = spec(cipher_type)
    /\ pc' = IF spec_ret'.tag = "Ok" THEN "sized" ELSE "panicked"
    /\ UNCHANGED <<cfg_test, name, parsed, cipher_type, derive_vars,
                   factory_vars, wire, enc_vars, dec_vars>>

\* derive_master_key_compatible(password, key_size)
DeriveMasterKey(password, key_size) ==
    /\ pc = "sized"
    /\ derive_req' = [password |-> password, key_size |-> key_size]
    /\ master_key' = derive_master_key_compatible(password, key_size)
    /\ pc' = IF master_key'.tag = "Panic" THEN "panicked" ELSE "derived"
    /\ UNCHANGED <<cfg_test, config_vars, factory_vars, wire, enc_vars,
                   dec_vars>>

\* create_crypter(key_bytes, nonce_type, cipher_type) for one direction;
\* both directions are created with the same key and nonce mode
CreateCrypter(side, key, nt) ==
    /\ pc \in {"sized", "session"}
    /\ IF side = "enc" THEN enc = NotCalled ELSE dec = NotCalled
    /\ pc = "session" => key = key_bytes /\ nt = nonce_type
    /\ key_bytes' = key
    /\ nonce_type' = nt
    /\ factory' = create_crypter(key, nt, cipher_type)
    /\ IF factory'.outcome.tag = "Ok"
       THEN /\ pc' = "session"
            /\ enc' = IF side = "enc" THEN factory'.outcome.val ELSE enc
            /\ dec' = IF side = "dec" THEN factory'.outcome.val ELSE dec
       ELSE /\ pc' = "panicked"
            /\ UNCHANGED <<enc, dec>>
    /\ UNCHANGED <<cfg_test, config_vars, derive_vars, wire, enc_vars,
                   dec_vars>>

\* enc.encrypt(data); the ciphertext goes on the wire
Encrypt(data) ==
    /\ pc = "session"
    /\ enc # NotCalled
    /\ enc_calls < MaxCalls
    /\ Len(wire) < MaxWire
    /\ LET r == encrypt(enc, data)
       IN  /\ enc' = r.crypter
           /\ enc_nonce_used' = r.nonce_used
           /\ enc_calls' = enc_calls + 1
           /\ wire' = Append(wire, [ct |-> r.out.val, plain |-> data])
    /\ UNCHANGED <<cfg_test, pc, config_vars, derive_vars, key_bytes,
                   nonce_type, factory, dec, dec_vars>>

\* dec.decrypt(ciphertext) on the oldest ciphertext of the wire; an
\* authentication failure is fatal to the connection
Decrypt ==
    /\ pc = "session"
    /\ dec # NotCalled
    /\ wire # <<>>
    /\ LET r == decrypt(dec, Head(wire).ct)
       IN  /\ dec' = r.crypter
           /\ dec_nonce_used' = r.nonce_used
           /\ dec_out' = r.out
           /\ dec_expect' = Head(wire).plain
           /\ dec_calls' = IF r.out.tag = "Ok" THEN dec_calls + 1
                           ELSE dec_calls
           /\ pc' = IF r.out.tag = "Ok" THEN pc ELSE "auth_failed"
    /\ wire' = Tail(wire)
    /\ UNCHANGED <<cfg_test, config_vars, derive_vars, key_bytes,
                   nonce_type, factory, enc, enc_vars>>

Next ==
    \/ \E n \in NameInputs : FromStr(n)
    \/ \E c \in CipherType(cfg_test) : SelectCipher(c)
    \/ LookupSpec
    \/ \E password \in Passwords, key_size \in 0..MaxKeyReq :
           DeriveMasterKey(password, key_size)
    \/ \E side \in {"enc", "dec"}, nt \in NonceType,
          key \in (IF spec_ret.tag = "Ok"
                   THEN Keys(spec_ret.val.key_size) ELSE {}) :
           CreateCrypter(side, key, nt)
    \/ \E data \in Plaintexts : Encrypt(data)
    \/ Decrypt

Spec == Init /\ [][Next]_vars

(***************************************************************************)
(* Properties.                                                             *)
(***************************************************************************)
ChaChaFamily == {"Chacha20IetfPoly1305", "XChacha20IetfPoly1305"}

\* key and nonce length of the backend a create_crypter call chose
BackendKeyLen(cipher) ==
    IF cipher = "chacha20_ietf_poly1305"
    THEN Chacha20IetfPoly1305Crypter_KEY_BYTES
    ELSE cipher_key_len(cipher)

BackendNonceLen(cipher) ==
    IF cipher = "chacha20_ietf_poly1305"
    THEN Chacha20IetfPoly1305Crypter_NONCE_BYTES
    ELSE cipher_iv_len_unwrap_or_0(cipher)

\* n as a little-endian unsigned integer of len bytes
RECURSIVE LEBytes(_, _)
LEBytes(n, len) ==
    IF len = 0 THEN <<>>
    ELSE <<n % 256>> \o LEBytes(n \div 256, len - 1)

\* C1: whenever create_crypter has run on a production cipher type, a
\* ChaCha20-Poly1305-family type took the dedicated ChaCha adapter, a
\* GCM-family type took the general-purpose adapter with its own cipher,
\* and the fallback arm (with its warning) was not taken.
C1_RoutedByFamily ==
    (factory # NotCalled /\ cipher_type \in ProductionCipherTypes) =>
        /\ cipher_type \in ChaChaFamily => factory.route = "chacha"
        /\ cipher_type = "Aes256GCM" =>
               factory.route = "gcm" /\ factory.cipher = "aes_256_gcm"
        /\ cipher_type = "Aes192GCM" =>
               factory.route = "gcm" /\ factory.cipher = "aes_192_gcm"
        /\ cipher_type = "Aes128GCM" =>
               factory.route = "gcm" /\ factory.cipher = "aes_128_gcm"
        /\ factory.route # "fallback"
        /\ ~factory.warned

\* C2: whenever create_crypter has run on a production cipher type with a
\* key of spec.key_size bytes, the chosen backend's key and nonce lengths
\* equal the registry's, and the call returned a crypter instead of
\* aborting.
C2_FactoryNeverAborts ==
    (/\ factory # NotCalled
     /\ cipher_type \in ProductionCipherTypes
     /\ Len(key_bytes) = spec_match(cipher_type).key_size) =>
        /\ BackendKeyLen(factory.cipher) = spec_match(cipher_type).key_size
        /\ BackendNonceLen(factory.cipher) = spec_match(cipher_type).nonce_size
        /\ factory.outcome.tag = "Ok"
        /\ pc # "panicked"

\* C3: every crypter handle create_crypter returned has the key and nonce
\* length the registry gives the requested cipher type; a call whose
\* backend differs from the registry in either length has aborted, and
\* returned no handle.
C3_NoMismatchedHandle ==
    /\ \A h \in {enc, dec} :
           h # NotCalled =>
               /\ h.key_len = spec_match(cipher_type).key_size
               /\ h.nonce_len = spec_match(cipher_type).nonce_size
               /\ Len(h.nonce) = spec_match(cipher_type).nonce_size
    /\ factory # NotCalled =>
           LET mismatch ==
                   \/ BackendKeyLen(factory.cipher) #
                          spec_match(cipher_type).key_size
                   \/ BackendNonceLen(factory.cipher) #
                          spec_match(cipher_type).nonce_size
           IN  /\ mismatch => factory.outcome.tag = "Panic" /\ pc = "panicked"
               /\ factory.outcome.tag = "Ok" => ~mismatch

\* C3 witness: the fallback backend's nonce length (12) differs from the
\* registry's (24), and the call aborted with no handle returned.
C3_Witness ==
    /\ factory # NotCalled
    /\ factory.route = "fallback"
    /\ BackendNonceLen(factory.cipher) # spec_match(cipher_type).nonce_size
    /\ factory.outcome.tag = "Panic"
    /\ enc = NotCalled /\ dec = NotCalled

\* C4: each of the five registered CipherSpecs has key_size = salt_size,
\* tag_size = 16 and nonce_size 12, except the XChaCha20 variant, whose
\* nonce_size is 24; so does every spec a production lookup returned.
SizesAsAssumed(c, sp) ==
    /\ sp.key_size = sp.salt_size
    /\ sp.tag_size = 16 /\ sp.tag_size = TAG_BYTES
    /\ sp.nonce_size \in {12, 24}
    /\ sp.nonce_size = 24 <=> c = "XChacha20IetfPoly1305"
    /\ c # "XChacha20IetfPoly1305" => sp.nonce_size = NONCE_BYTES

C4_RegistrySizes ==
    /\ Cardinality(ProductionCipherTypes) = 5
    /\ \A c \in ProductionCipherTypes : SizesAsAssumed(c, spec_match(c))
    /\ (spec_ret.tag = "Ok" /\ cipher_type \in ProductionCipherTypes) =>
           SizesAsAssumed(cipher_type, spec_ret.val)

C4_Witness ==
    /\ spec_ret.tag = "Ok"
    /\ cipher_type = "XChacha20IetfPoly1305"
    /\ spec_ret.val.nonce_size = 24

\* the parse table against the list of possible_ciphers()
ParseTable ==
    /\ \A n \in NameInputs :
           IF n \in Range(possible_ciphers)
           THEN /\ from_str(n).tag = "Ok"
                /\ from_str(n).val \in ProductionCipherTypes
           ELSE from_str(n) = Err([kind |-> "UnknownCipher", name |-> n])
    /\ \A i, j \in DOMAIN possible_ciphers :
           i # j => from_str(possible_ciphers[i]) # from_str(possible_ciphers[j])
    /\ \A c \in ProductionCipherTypes :
           Cardinality({i \in DOMAIN possible_ciphers :
                            from_str(possible_ciphers[i]) = Ok(c)}) = 1

\* C5: from_str succeeds exactly on the names of possible_ciphers(); the
\* listed names parse to pairwise distinct cipher types; every production
\* cipher type is the parse of exactly one listed name; every other name,
\* case variants included, gives Err(UnknownCipher(name)) with the rejected
\* name, and no cipher type is chosen.
C5_ParseExactlyListed ==
    /\ pc \in {"configured", "config_error"} => ParseTable
    /\ parsed # NotCalled =>
           IF name \in Range(possible_ciphers)
           THEN parsed = Ok(cipher_type) /\ pc # "config_error"
           ELSE /\ parsed = Err([kind |-> "UnknownCipher", name |-> name])
                /\ cipher_type = "unset"
                /\ pc = "config_error"

C5_Witness ==
    /\ parsed.tag = "Err"
    /\ name = "AES-256-GCM"
    /\ pc = "config_error"

\* C6: in Sequential mode the Nth successful encrypt (decrypt) call of a
\* fresh crypter used the nonce that is N-1 as a little-endian integer, and
\* the buffer then holds N; in Zero mode every call used the all-zero nonce
\* and the buffer stays zero.
NonceSchedule(crypter, calls, used) ==
    crypter # NotCalled =>
        IF crypter.nonce_type = "Sequential"
        THEN /\ crypter.nonce = LEBytes(calls, crypter.nonce_len)
             /\ calls > 0 => used = LEBytes(calls - 1, crypter.nonce_len)
             /\ calls > 0 => used # crypter.nonce
        ELSE /\ crypter.nonce = Zeros(crypter.nonce_len)
             /\ calls > 0 => used = Zeros(crypter.nonce_len)

C6_NonceSchedule ==
    /\ \A h \in {enc, dec} : h # NotCalled => h.nonce_type = nonce_type
    /\ NonceSchedule(enc, enc_calls, enc_nonce_used)
    /\ NonceSchedule(dec, dec_calls, dec_nonce_used)

\* C6 witness: the 257th encrypt and decrypt calls, whose nonce is 256:
\* the increment has carried into the second byte.
C6_Witness ==
    /\ nonce_type = "Sequential"
    /\ enc_calls = 257 /\ dec_calls = 257
    /\ enc_nonce_used = <<0, 1>> \o Zeros(10)
    /\ dec_nonce_used = <<0, 1>> \o Zeros(10)

C9_PanicOnlyBeyond32 ==
    /\ master_key # NotCalled =>
           /\ master_key.tag = "Panic" <=> derive_req.key_size > 32
           /\ master_key.tag = "Panic" <=> pc = "panicked"
           /\ master_key.tag # "Err"
    /\ AES_256_GCM.key_size = 32
    /\ \A c \in ProductionCipherTypes :
           /\ spec_match(c).key_size <= AES_256_GCM.key_size
           /\ master_key # NotCalled =>
                  derive_master_key_compatible(
                      derive_req.password, spec_match(c).key_size).tag = "Ok"

C9_Witness ==
    /\ master_key.tag = "Panic"
    /\ derive_req.key_size = 33
    /\ pc = "panicked"

\* C10: CipherType::spec returns, for every cipher type of the build, a
\* CipherSpec whose cipher_type is the one asked for: its assertion never
\* fails and no lookup ends in a panic.
C10_SpecTotal ==
    /\ \A c \in CipherType(cfg_test) :
           spec(c).tag = "Ok" /\ spec(c).val.cipher_type = c
    /\ spec_ret # NotCalled =>
           spec_ret.tag = "Ok" /\ spec_ret.val.cipher_type = cipher_type
    /\ (pc = "panicked" /\ factory # NotCalled) =>
           factory.outcome.msg # "assertion failed: ret.cipher_type == self"

C10_Witness ==
    /\ cfg_test
    /\ cipher_type = "None"
    /\ spec_ret = Ok(NONE)

====
